---------------------------- MODULE Spec2Model ----------------------------
(***************************************************************************)
(* ZeroClaw browser control: the bridge server's command relay             *)
(* (sendCommand, the pendingCommands table, the WebSocket handlers) and    *)
(* the extension's link manager (connect, onclose, reconnect triggers) in  *)
(* its alarm-based and its timer-based version, and the path of a command  *)
(* through the worker to the content script (resolveElement, scrape,       *)
(* navigate, forwardToContentScript).                                      *)
(***************************************************************************)
EXTENDS Integers, FiniteSets, Sequences, TLC

(* ------------------------------ bounds -------------------------------- *)

\* sendCommand calls made in one run (one caller, one promise each)
MaxCallers == 2
\* WebSocket connections the bridge server accepts in one run
MaxSockets == 2

\* WebSocket objects the extension creates in one run
MaxClientSockets == 3
\* chrome.alarms.get callbacks that may be waiting to run
MaxPendingGets == 2
\* WebSocket objects of the timer-based worker that exist at one time
MaxTimerSockets == 2
\* consecutive failed connection attempts followed in one run
MaxFailures == 6
\* characters of a locator
MaxLocatorLen == 2
\* onMessage listeners the content script registers in one page
MaxListeners == 3

Callers == 1..MaxCallers
Sockets == 1..MaxSockets
\* correlation ids; crypto.randomUUID() hands out at most one per caller
Ids == 1..MaxCallers
ClientSockets == 1..MaxClientSockets
TimerSockets == 1..MaxTimerSockets

NULL == 0
NoId == 0

(* ------------------------- values of the relay ------------------------- *)

\* data a reply may carry
Data == {"d1", "d2"}
\* actions a caller may submit (one of the enumeration, one outside it)
Actions == {"click", "bogus"}
\* the params mapping of a submit: only the keys that collide with the
\* envelope's own keys matter to the relay; id = NoId, action = "" : absent
ParamsSet ==
  { [id |-> NoId, action |-> ""],
    [id |-> 1,    action |-> ""],
    [id |-> NoId, action |-> "scrape"] }

NotConnectedMsg == "Chrome extension is not connected"
DisconnectedMsg == "Extension disconnected"
TimeoutMsg == "Command timed out"
ShutdownMsg == "Server shutting down"
DefaultFailMsg == "Extension command failed"

\* the outcome a caller's promise holds
NotSubmitted == [kind |-> "none", val |-> ""]
Waiting == [kind |-> "waiting", val |-> ""]
Ok(d) == [kind |-> "ok", val |-> d]
Err(m) == [kind |-> "err", val |-> m]

\* no message forwarded
NoMsg == [id |-> NoId, action |-> ""]

\* frames a peer may put on a socket. body: "invalid" is text JSON.parse
\* rejects, "null" is the JSON text null, "object" is a JSON object
InvalidFrame ==
  [body |-> "invalid", type |-> "", id |-> NoId, success |-> FALSE, data |-> "", error |-> ""]
NullFrame ==
  [body |-> "null", type |-> "", id |-> NoId, success |-> FALSE, data |-> "", error |-> ""]
ControlFrames ==
  { [body |-> "object", type |-> t, id |-> i, success |-> TRUE, data |-> "d1", error |-> ""] :
      t \in {"ping", "extension_ready"}, i \in {NoId} \cup Ids }
SuccessFrames ==
  { [body |-> "object", type |-> "", id |-> i, success |-> TRUE, data |-> d, error |-> ""] :
      i \in {NoId} \cup Ids, d \in Data }
FailureFrames ==
  { [body |-> "object", type |-> "", id |-> i, success |-> FALSE, data |-> "", error |-> e] :
      i \in {NoId} \cup Ids, e \in {"", "e1"} }
Frames == {InvalidFrame, NullFrame} \cup ControlFrames \cup SuccessFrames \cup FailureFrames

(* ------------------------------- state --------------------------------- *)

VARIABLES
  running,          \* the bridge server process is alive
  readyState,       \* readyState of each server-side socket
  extensionSocket,  \* the socket commands are forwarded to, or NULL
  pendingCommands,  \* id -> [caller, timer]: resolve/reject and the timer handle
  timers,           \* armed setTimeout handles (one per sendCommand: the caller)
  nextId,           \* ids crypto.randomUUID() has handed out so far, plus one
  nCallers,         \* sendCommand calls so far
  cid,              \* the id each sendCommand call generated (its closure's id)
  result,           \* what each caller's promise holds
  settles,          \* how often resolve/reject was invoked on each promise
  last,             \* the handler that ran last: its input, the message it forwarded
  \* the extension's service worker (alarm-based background.js)
  ws,               \* the link handle: a WebSocket object or NULL
  wsState,          \* readyState of each WebSocket object the extension created
  reconnectAlarm,   \* the zeroclaw-reconnect alarm exists
  keepaliveAlarm,   \* the zeroclaw-keepalive alarm exists
  pendingGets,      \* chrome.alarms.get callbacks not yet run: what each will be given
  linkLast,         \* the handler of this worker that ran last
  \* the extension's service worker (timer-based background.js)
  wsT,              \* the link handle (ws): a WebSocket object or NULL
  wsTState,         \* readyState of each WebSocket object of this worker
  reconnectDelay,   \* the delay the next scheduleReconnect will use, in ms
  reconnectTimer,   \* the armed reconnect timer: the delay it was armed with, or NULL
  runtimeEvents,    \* onStartup / onInstalled events not yet delivered
  failures,         \* connection attempts that failed since the last success
  timerLast,        \* the handler of this worker that ran last
  \* the environment of the extension
  reachable,        \* the bridge server's WebSocket endpoint accepts connections
  awake,            \* the service worker is running (not terminated by the browser)
  \* the page in the target tab and its content script
  pageText,         \* the document: the text each element holds itself
  listeners,        \* onMessage listeners the content script has registered in the page
  exec,             \* the command in progress in the extension and what became of it
  cmd               \* the command the worker's onmessage handler is working on

relayVars ==
  <<running, readyState, extensionSocket, pendingCommands, timers, nextId,
    nCallers, cid, result, settles, last>>

alarmVars == <<ws, wsState, reconnectAlarm, keepaliveAlarm, pendingGets, linkLast>>

timerVars ==
  <<wsT, wsTState, reconnectDelay, reconnectTimer, runtimeEvents, failures, timerLast>>

\* everything outside the bridge server
pageVars == <<pageText, listeners, exec, cmd>>

linkVars == <<alarmVars, timerVars, reachable, awake, pageVars>>

vars == <<relayVars, linkVars>>

NoFrame == InvalidFrame
Event(op, s, c, f, m) == [op |-> op, sock |-> s, caller |-> c, frame |-> f, out |-> m]

RelayInit ==
  /\ running = TRUE
  /\ readyState = [s \in Sockets |-> "NONE"]
  /\ extensionSocket = NULL
  /\ pendingCommands = << >>
  /\ timers = {}
  /\ nextId = 1
  /\ nCallers = 0
  /\ cid = [c \in Callers |-> NoId]
  /\ result = [c \in Callers |-> NotSubmitted]
  /\ settles = [c \in Callers |-> 0]
  /\ last = Event("init", NULL, 0, NoFrame, NoMsg)

(* --------------------------- helper operators -------------------------- *)

\* Map.delete / Map.set on pendingCommands
MapDelete(m, k) == [x \in (DOMAIN m) \ {k} |-> m[x]]
MapSet(m, k, v) == [x \in (DOMAIN m) \cup {k} |-> IF x = k THEN v ELSE m[x]]

\* a promise settles once: later resolve/reject calls leave its value alone
Settle(cur, r) == IF cur.kind = "waiting" THEN r ELSE cur

\* callers whose resolve/reject the table holds
TableCallers(m) == { m[k].caller : k \in DOMAIN m }
TableTimers(m) == { m[k].timer : k \in DOMAIN m }


(* ------------------- wsServer.on("connection", ...) -------------------- *)

\* the next socket the server accepts (socket identities are arbitrary)
NextSocket == CHOOSE s \in Sockets : readyState[s] = "NONE" /\ \A r \in Sockets : r < s => readyState[r] # "NONE"

OnConnection(s) ==
  /\ running
  /\ \E r \in Sockets : readyState[r] = "NONE"
  /\ s = NextSocket
  /\ readyState' = [readyState EXCEPT ![s] = "OPEN"]
  /\ extensionSocket' = s
  /\ last' = Event("connection", s, 0, NoFrame, NoMsg)
  /\ UNCHANGED <<running, pendingCommands, timers, nextId, nCallers, cid, result, settles, linkVars>>

\* the ws library moves a socket to CLOSING when its closing starts (a close
\* frame, the TCP stream ending); the "close" event follows later
StartClosing(s) ==
  /\ running
  /\ readyState[s] = "OPEN"
  /\ readyState' = [readyState EXCEPT ![s] = "CLOSING"]
  /\ last' = Event("closing", s, 0, NoFrame, NoMsg)
  /\ UNCHANGED <<running, extensionSocket, pendingCommands, timers, nextId, nCallers, cid, result, settles, linkVars>>

(* ----------------------- socket.on("message", ...) --------------------- *)

\* JSON.parse yields null and msg.type throws a TypeError: nothing catches
\* it, and the uncaught exception ends the process
Throws(f) == f.body = "null"

\* (mutant) the id is looked up before the type of the frame is tested
IsResponseAnyType(f, m) ==
  /\ f.body = "object"
  /\ f.id # NoId
  /\ f.id \in DOMAIN m

\* the frame parses, is no control frame, and its id is a key of the table
IsResponse(f, m) ==
  /\ f.body = "object"
  /\ f.type # "ping"
  /\ f.type # "extension_ready"
  /\ f.id # NoId
  /\ f.id \in DOMAIN m

\* (mutant) resolve() is called without msg.data
ReplyOutcomeNoData(f) ==
  IF f.success THEN Ok("")
  ELSE Err(IF f.error # "" THEN f.error ELSE DefaultFailMsg)

\* what the caller gets from a matching frame
ReplyOutcome(f) ==
  IF f.success THEN Ok(f.data)
  ELSE Err(IF f.error # "" THEN f.error ELSE DefaultFailMsg)

\* (mutant) the matching entry's timer is not cleared
OnMessageKeepTimer(s, f) ==
  /\ running
  /\ readyState[s] \in {"OPEN", "CLOSING"}
  /\ running' = ~Throws(f)
  /\ IF IsResponse(f, pendingCommands)
       THEN LET e == pendingCommands[f.id] IN
            /\ pendingCommands' = MapDelete(pendingCommands, f.id)
            /\ result' = [result EXCEPT ![e.caller] = Settle(@, ReplyOutcome(f))]
            /\ settles' = [settles EXCEPT ![e.caller] = @ + 1]
            /\ UNCHANGED timers
       ELSE UNCHANGED <<timers, pendingCommands, result, settles, linkVars>>
  /\ last' = Event("message", NULL, 0, f, NoMsg)
  /\ UNCHANGED <<readyState, extensionSocket, nextId, nCallers, cid, linkVars>>

\* (mutant) a reply is matched by send order: it resolves the oldest entry
OnMessageFifo(s, f) ==
  /\ running
  /\ readyState[s] \in {"OPEN", "CLOSING"}
  /\ running' = ~Throws(f)
  /\ IF f.body = "object" /\ f.type = "" /\ f.id # NoId /\ DOMAIN pendingCommands # {}
       THEN LET k == CHOOSE x \in DOMAIN pendingCommands :
                       \A y \in DOMAIN pendingCommands : x <= y
                e == pendingCommands[k] IN
            /\ timers' = timers \ {e.timer}
            /\ pendingCommands' = MapDelete(pendingCommands, k)
            /\ result' = [result EXCEPT ![e.caller] = Settle(@, ReplyOutcome(f))]
            /\ settles' = [settles EXCEPT ![e.caller] = @ + 1]
       ELSE UNCHANGED <<timers, pendingCommands, result, settles, linkVars>>
  /\ last' = Event("message", NULL, 0, f, NoMsg)
  /\ UNCHANGED <<readyState, extensionSocket, nextId, nCallers, cid, linkVars>>

OnMessage(s, f) ==
  /\ running
  /\ readyState[s] \in {"OPEN", "CLOSING"}
  /\ running' = ~Throws(f)
  /\ IF IsResponse(f, pendingCommands)
       THEN LET e == pendingCommands[f.id] IN
            /\ timers' = timers \ {e.timer}
            /\ pendingCommands' = MapDelete(pendingCommands, f.id)
            /\ result' = [result EXCEPT ![e.caller] = Settle(@, ReplyOutcome(f))]
            /\ settles' = [settles EXCEPT ![e.caller] = @ + 1]
       ELSE UNCHANGED <<timers, pendingCommands, result, settles, linkVars>>
  /\ last' = Event("message", NULL, 0, f, NoMsg)
  /\ UNCHANGED <<readyState, extensionSocket, nextId, nCallers, cid, linkVars>>

(* ------------------------ socket.on("close", ...) ---------------------- *)

\* (mutant) the loop rejects and deletes but leaves the timers armed
RejectAllKeepTimers(msg) ==
  /\ timers' = timers
  /\ result' = [c \in Callers |->
                  IF c \in TableCallers(pendingCommands)
                    THEN Settle(result[c], Err(msg)) ELSE result[c]]
  /\ settles' = [c \in Callers |->
                  IF c \in TableCallers(pendingCommands)
                    THEN settles[c] + 1 ELSE settles[c]]
  /\ pendingCommands' = << >>

\* the loop over pendingCommands: clearTimeout, reject, delete, for each entry
RejectAll(msg) ==
  /\ timers' = timers \ TableTimers(pendingCommands)
  /\ result' = [c \in Callers |->
                  IF c \in TableCallers(pendingCommands)
                    THEN Settle(result[c], Err(msg)) ELSE result[c]]
  /\ settles' = [c \in Callers |->
                  IF c \in TableCallers(pendingCommands)
                    THEN settles[c] + 1 ELSE settles[c]]
  /\ pendingCommands' = << >>

OnClose(s) ==
  /\ running
  /\ readyState[s] \in {"OPEN", "CLOSING"}
  /\ readyState' = [readyState EXCEPT ![s] = "CLOSED"]
  /\ extensionSocket' = IF extensionSocket = s THEN NULL ELSE extensionSocket
  /\ RejectAll(DisconnectedMsg)
  /\ last' = Event("close", s, 0, NoFrame, NoMsg)
  /\ UNCHANGED <<running, nextId, nCallers, cid, linkVars>>

(* ---------------------------- sendCommand ------------------------------ *)

\* (mutant) the id generator repeats itself
NewIdRepeated == IF nextId > 1 THEN nextId - 1 ELSE nextId

\* crypto.randomUUID(): an id never handed out before
NewId == nextId

\* JSON.stringify({ id, action, ...params }): a key of params replaces the
\* envelope's key of the same name
Payload(id, action, params) ==
  [id |-> IF params.id # NoId THEN params.id ELSE id,
   action |-> IF params.action # "" THEN params.action ELSE action]

\* (mutant) only the handle is tested, not its readyState
ConnectedHandleOnly == extensionSocket # NULL

\* the guard of sendCommand, negated
Connected == extensionSocket # NULL /\ readyState[extensionSocket] = "OPEN"

\* (mutant) a command is held back while another one is outstanding
sendCommandSerial(action, params) ==
  /\ running
  /\ nCallers < MaxCallers
  /\ LET c == nCallers + 1 IN
     /\ nCallers' = c
     /\ IF ~Connected
          THEN /\ result' = [result EXCEPT ![c] = Settle(Waiting, Err(NotConnectedMsg))]
               /\ settles' = [settles EXCEPT ![c] = @ + 1]
               /\ last' = Event("submit", NULL, c, NoFrame, NoMsg)
               /\ UNCHANGED <<pendingCommands, timers, nextId, cid, linkVars>>
          ELSE LET id == NewId
                   p == Payload(id, action, params) IN
               /\ nextId' = nextId + 1
               /\ cid' = [cid EXCEPT ![c] = id]
               /\ timers' = timers \cup {c}
               /\ pendingCommands' = MapSet(pendingCommands, id, [caller |-> c, timer |-> c])
               /\ result' = [result EXCEPT ![c] = Waiting]
               /\ last' = Event("submit", extensionSocket, c, NoFrame,
                                IF DOMAIN pendingCommands = {} THEN p ELSE NoMsg)
               /\ UNCHANGED settles
  /\ UNCHANGED <<running, readyState, extensionSocket, linkVars>>

sendCommand(action, params) ==
  /\ running
  /\ nCallers < MaxCallers
  /\ LET c == nCallers + 1 IN
     /\ nCallers' = c
     /\ IF ~Connected
          THEN /\ result' = [result EXCEPT ![c] = Settle(Waiting, Err(NotConnectedMsg))]
               /\ settles' = [settles EXCEPT ![c] = @ + 1]
               /\ last' = Event("submit", NULL, c, NoFrame, NoMsg)
               /\ UNCHANGED <<pendingCommands, timers, nextId, cid, linkVars>>
          ELSE LET id == NewId
                   p == Payload(id, action, params) IN
               /\ nextId' = nextId + 1
               /\ cid' = [cid EXCEPT ![c] = id]
               /\ timers' = timers \cup {c}
               /\ pendingCommands' = MapSet(pendingCommands, id, [caller |-> c, timer |-> c])
               /\ result' = [result EXCEPT ![c] = Waiting]
               /\ last' = Event("submit", extensionSocket, c, NoFrame, p)
               /\ UNCHANGED settles
  /\ UNCHANGED <<running, readyState, extensionSocket, linkVars>>

\* (mutant) the timeout callback rejects but leaves the entry in the table
TimerFiresKeepEntry(c) ==
  /\ running
  /\ c \in timers
  /\ timers' = timers \ {c}
  /\ result' = [result EXCEPT ![c] = Settle(@, Err(TimeoutMsg))]
  /\ settles' = [settles EXCEPT ![c] = @ + 1]
  /\ last' = Event("timeout", NULL, c, NoFrame, NoMsg)
  /\ UNCHANGED <<running, readyState, extensionSocket, pendingCommands, nextId, nCallers, cid, linkVars>>

\* the setTimeout callback of sendCommand call c
TimerFires(c) ==
  /\ running
  /\ c \in timers
  /\ timers' = timers \ {c}
  /\ pendingCommands' = MapDelete(pendingCommands, cid[c])
  /\ result' = [result EXCEPT ![c] = Settle(@, Err(TimeoutMsg))]
  /\ settles' = [settles EXCEPT ![c] = @ + 1]
  /\ last' = Event("timeout", NULL, c, NoFrame, NoMsg)
  /\ UNCHANGED <<running, readyState, extensionSocket, nextId, nCallers, cid, linkVars>>

(* ------------------------------ shutdown ------------------------------- *)

\* (mutant) the shutdown loop rejects and deletes without clearTimeout
shutdownKeepTimers ==
  /\ running
  /\ running' = FALSE
  /\ RejectAllKeepTimers(ShutdownMsg)
  /\ last' = Event("shutdown", NULL, 0, NoFrame, NoMsg)
  /\ UNCHANGED <<readyState, extensionSocket, nextId, nCallers, cid, linkVars>>

shutdown ==
  /\ running
  /\ running' = FALSE
  /\ RejectAll(ShutdownMsg)
  /\ last' = Event("shutdown", NULL, 0, NoFrame, NoMsg)
  /\ UNCHANGED <<readyState, extensionSocket, nextId, nCallers, cid, linkVars>>

(* ---------------- background.js: the link manager (alarms) ------------- *)

\* the worker's link state as one value, for the functions below
LinkState == [ws |-> ws, wsState |-> wsState, reconnectAlarm |-> reconnectAlarm,
              keepaliveAlarm |-> keepaliveAlarm, pendingGets |-> pendingGets]

\* the worker as its script starts: no socket, no alarm
LinkBlank ==
  [ws |-> NULL, wsState |-> [s \in ClientSockets |-> "NONE"],
   reconnectAlarm |-> FALSE, keepaliveAlarm |-> FALSE, pendingGets |-> << >>]

\* the handler that ran last; attempt = connect() went past its guard
LinkEvent(op, attempt) == [op |-> op, attempt |-> attempt]

\* the WebSocket object the next "new WebSocket" yields
NewSocket(st) ==
  CHOOSE s \in ClientSockets :
    st.wsState[s] = "NONE" /\ \A r \in ClientSockets : r < s => st.wsState[r] # "NONE"

\* ws && (ws.readyState === OPEN || ws.readyState === CONNECTING)
HandleLive(st) == st.ws # NULL /\ st.wsState[st.ws] \in {"OPEN", "CONNECTING"}

\* chrome.alarms.get(RECONNECT_ALARM, cb): cb runs later, given the alarm as
\* it is now
ensureReconnectAlarm(st) ==
  [st EXCEPT !.pendingGets = Append(@, st.reconnectAlarm)]

\* connect(); thrown = the WebSocket constructor throws
connect(st, thrown) ==
  IF HandleLive(st) THEN st
  ELSE IF thrown THEN ensureReconnectAlarm(st)
  ELSE LET s == NewSocket(st) IN
       [st EXCEPT !.ws = s, !.wsState[s] = "CONNECTING"]

\* the bounds of the model leave room for this call of connect
ConnectInBounds(st, thrown) ==
  \/ HandleLive(st)
  \/ thrown /\ Len(st.pendingGets) < MaxPendingGets
  \/ ~thrown /\ \E s \in ClientSockets : st.wsState[s] = "NONE"

\* the worker after its script ran: connect() was called once (the later
\* onStartup / onInstalled calls find the handle connecting and return)
LinkInit ==
  \E thrown \in BOOLEAN :
    LET st == connect(LinkBlank, thrown) IN
    /\ ws = st.ws
    /\ wsState = st.wsState
    /\ reconnectAlarm = st.reconnectAlarm
    /\ keepaliveAlarm = st.keepaliveAlarm
    /\ pendingGets = st.pendingGets
    /\ linkLast = LinkEvent("start", TRUE)

SetAlarmState(st) ==
  /\ ws' = st.ws
  /\ wsState' = st.wsState
  /\ reconnectAlarm' = st.reconnectAlarm
  /\ keepaliveAlarm' = st.keepaliveAlarm
  /\ pendingGets' = st.pendingGets

SetLink(st) ==
  /\ SetAlarmState(st)
  /\ UNCHANGED <<timerVars, reachable, awake, pageVars>>

\* ws.onopen of socket s: the handshake succeeded
OnOpen(s) ==
  /\ wsState[s] = "CONNECTING"
  /\ SetLink([LinkState EXCEPT !.wsState[s] = "OPEN",
                               !.reconnectAlarm = FALSE,
                               !.keepaliveAlarm = TRUE])
  /\ linkLast' = LinkEvent("open", FALSE)
  /\ UNCHANGED relayVars

\* the peer starts the closing handshake of socket s: readyState is CLOSING
\* until the close event
PeerStartsClosing(s) ==
  /\ wsState[s] = "OPEN"
  /\ SetLink([LinkState EXCEPT !.wsState[s] = "CLOSING"])
  /\ linkLast' = LinkEvent("closing", FALSE)
  /\ UNCHANGED relayVars

\* ws.onclose of socket s: the handshake failed or the connection ended
OnSocketClose(s) ==
  /\ wsState[s] \in {"CONNECTING", "OPEN", "CLOSING"}
  /\ Len(pendingGets) < MaxPendingGets
  /\ SetLink(ensureReconnectAlarm([LinkState EXCEPT !.wsState[s] = "CLOSED",
                                                    !.ws = NULL,
                                                    !.keepaliveAlarm = FALSE]))
  /\ linkLast' = LinkEvent("close", FALSE)
  /\ UNCHANGED relayVars

\* (mutant) the callback creates the alarm whatever chrome.alarms.get found
GetCallbackAlwaysCreates ==
  /\ pendingGets # << >>
  /\ SetLink([LinkState EXCEPT !.pendingGets = Tail(@), !.reconnectAlarm = TRUE])
  /\ linkLast' = LinkEvent("create", FALSE)
  /\ UNCHANGED relayVars

\* the callback of chrome.alarms.get: create the alarm if there was none
\* (op "create": chrome.alarms.create was called, "get": it was not)
GetCallback ==
  /\ pendingGets # << >>
  /\ SetLink([LinkState EXCEPT !.pendingGets = Tail(@),
                               !.reconnectAlarm = IF Head(pendingGets) THEN @ ELSE TRUE])
  /\ linkLast' = LinkEvent(IF Head(pendingGets) THEN "get" ELSE "create", FALSE)
  /\ UNCHANGED relayVars

\* chrome.alarms.onAlarm with the reconnect alarm
OnReconnectAlarm(thrown) ==
  /\ reconnectAlarm
  /\ ConnectInBounds(LinkState, thrown)
  /\ SetLink(connect(LinkState, thrown))
  /\ linkLast' = LinkEvent("reconnect", ~HandleLive(LinkState))
  /\ UNCHANGED relayVars

\* chrome.alarms.onAlarm with the keep-alive alarm (op "ping": a ping was
\* sent, "keepalive": the handler switched to reconnect polling)
OnKeepaliveAlarm ==
  /\ keepaliveAlarm
  /\ IF ws # NULL /\ wsState[ws] = "OPEN"
       THEN /\ SetLink(LinkState)
            /\ linkLast' = LinkEvent("ping", FALSE)
       ELSE /\ Len(pendingGets) < MaxPendingGets
            /\ SetLink(ensureReconnectAlarm([LinkState EXCEPT !.keepaliveAlarm = FALSE]))
            /\ linkLast' = LinkEvent("keepalive", FALSE)
  /\ UNCHANGED relayVars

LinkNext ==
  \/ \E s \in ClientSockets : OnOpen(s)
  \/ \E s \in ClientSockets : PeerStartsClosing(s)
  \/ \E s \in ClientSockets : OnSocketClose(s)
  \/ GetCallback
  \/ \E b \in BOOLEAN : OnReconnectAlarm(b)
  \/ OnKeepaliveAlarm

(* ---------------- background.js: the link manager (timers) ------------- *)

RECONNECT_BASE_MS == 1000
RECONNECT_MAX_MS == 30000
\* chrome.runtime.onStartup and chrome.runtime.onInstalled, each bound to connect
RuntimeListeners == 2

\* Math.min
Min(a, b) == IF a <= b THEN a ELSE b

\* the timer-based worker's link state as one value
TimerState == [ws |-> wsT, wsState |-> wsTState,
               reconnectDelay |-> reconnectDelay, reconnectTimer |-> reconnectTimer]

\* the worker as its script starts: no socket, the delay at its base, no timer
TimerBlank ==
  [ws |-> NULL, wsState |-> [s \in TimerSockets |-> "NONE"],
   reconnectDelay |-> RECONNECT_BASE_MS, reconnectTimer |-> NULL]

\* the handler that ran last: attempt = connect() went past its guard,
\* wait = the delay of the timer that fired, k = failed attempts before it
TimerEvent(op, attempt, wait, k) == [op |-> op, attempt |-> attempt, wait |-> wait, k |-> k]

\* a WebSocket object that does not exist (any more) is free to be created
NewTimerSocket(st) ==
  CHOOSE s \in TimerSockets :
    st.wsState[s] = "NONE" /\ \A r \in TimerSockets : r < s => st.wsState[r] # "NONE"

\* ws && (ws.readyState === OPEN || ws.readyState === CONNECTING)
TimerHandleLive(st) == st.ws # NULL /\ st.wsState[st.ws] \in {"OPEN", "CONNECTING"}

\* clearTimeout(reconnectTimer); reconnectTimer = setTimeout(..., reconnectDelay)
scheduleReconnect(st) == [st EXCEPT !.reconnectTimer = st.reconnectDelay]

\* connect() of the timer-based version; thrown = the constructor throws
timerConnect(st, thrown) ==
  IF TimerHandleLive(st) THEN st
  ELSE IF thrown THEN scheduleReconnect(st)
  ELSE LET s == NewTimerSocket(st) IN
       [st EXCEPT !.ws = s, !.wsState[s] = "CONNECTING"]

\* the bounds of the model leave room for this call of connect
TimerConnectInBounds(st, thrown) ==
  \/ TimerHandleLive(st)
  \/ thrown /\ failures < MaxFailures
  \/ ~thrown /\ \E s \in TimerSockets : st.wsState[s] = "NONE"

\* failed attempts after a call of connect: a throwing constructor is one more
FailuresAfterConnect(st, thrown) ==
  IF ~TimerHandleLive(st) /\ thrown THEN failures + 1 ELSE failures

SetTimerState(st) ==
  /\ wsT' = st.ws
  /\ wsTState' = st.wsState
  /\ reconnectDelay' = st.reconnectDelay
  /\ reconnectTimer' = st.reconnectTimer

SetTimerLink(st) ==
  /\ SetTimerState(st)
  /\ UNCHANGED <<relayVars, alarmVars, reachable, awake, pageVars>>

\* the worker after its script ran: connect() was called once
TimerInit ==
  \E thrown \in BOOLEAN :
    LET st == timerConnect(TimerBlank, thrown) IN
    /\ wsT = st.ws
    /\ wsTState = st.wsState
    /\ reconnectDelay = st.reconnectDelay
    /\ reconnectTimer = st.reconnectTimer
    /\ runtimeEvents = RuntimeListeners
    /\ failures = IF thrown THEN 1 ELSE 0
    /\ timerLast = TimerEvent("start", TRUE, 0, 0)

\* the timer-based worker is not loaded
TimerIdle ==
  /\ wsT = TimerBlank.ws
  /\ wsTState = TimerBlank.wsState
  /\ reconnectDelay = TimerBlank.reconnectDelay
  /\ reconnectTimer = TimerBlank.reconnectTimer
  /\ runtimeEvents = 0
  /\ failures = 0
  /\ timerLast = TimerEvent("idle", FALSE, 0, 0)

\* ws.onopen of socket s: the delay goes back to its base
TimerOnOpen(s) ==
  /\ wsTState[s] = "CONNECTING"
  /\ SetTimerLink([TimerState EXCEPT !.wsState[s] = "OPEN",
                                     !.reconnectDelay = RECONNECT_BASE_MS])
  /\ failures' = 0
  /\ timerLast' = TimerEvent("open", FALSE, 0, failures)
  /\ UNCHANGED runtimeEvents

\* the peer starts the closing handshake of socket s
TimerPeerStartsClosing(s) ==
  /\ wsTState[s] = "OPEN"
  /\ SetTimerLink([TimerState EXCEPT !.wsState[s] = "CLOSING"])
  /\ timerLast' = TimerEvent("closing", FALSE, 0, failures)
  /\ UNCHANGED <<runtimeEvents, failures>>

\* ws.onclose of socket s: the handshake failed (s was connecting) or the
\* connection ended; the closed object is gone
TimerOnClose(s) ==
  /\ wsTState[s] \in {"CONNECTING", "OPEN", "CLOSING"}
  /\ wsTState[s] = "CONNECTING" => failures < MaxFailures
  /\ SetTimerLink(scheduleReconnect([TimerState EXCEPT !.wsState[s] = "NONE",
                                                       !.ws = NULL]))
  /\ failures' = IF wsTState[s] = "CONNECTING" THEN failures + 1 ELSE failures
  /\ timerLast' = TimerEvent(IF wsTState[s] = "CONNECTING" THEN "failed" ELSE "lost",
                             FALSE, 0, failures)
  /\ UNCHANGED runtimeEvents

\* the setTimeout callback of scheduleReconnect: double the delay, connect
OnReconnectTimer(thrown) ==
  /\ reconnectTimer # NULL
  /\ LET st == [TimerState EXCEPT
                  !.reconnectTimer = NULL,
                  !.reconnectDelay = Min(reconnectDelay * 2, RECONNECT_MAX_MS)] IN
     /\ TimerConnectInBounds(st, thrown)
     /\ SetTimerLink(timerConnect(st, thrown))
     /\ failures' = FailuresAfterConnect(st, thrown)
     /\ timerLast' = TimerEvent("timer", ~TimerHandleLive(st), reconnectTimer, failures)
  /\ UNCHANGED runtimeEvents

\* chrome.runtime.onStartup / onInstalled: connect()
OnRuntimeEvent(thrown) ==
  /\ runtimeEvents > 0
  /\ runtimeEvents' = runtimeEvents - 1
  /\ TimerConnectInBounds(TimerState, thrown)
  /\ SetTimerLink(timerConnect(TimerState, thrown))
  /\ failures' = FailuresAfterConnect(TimerState, thrown)
  /\ timerLast' = TimerEvent("runtime", ~TimerHandleLive(TimerState), 0, failures)

\* the setInterval callback of the keep-alive: a ping if the handle is
\* open (op "ping"), nothing otherwise (op "tick")
OnKeepaliveInterval ==
  /\ SetTimerLink(TimerState)
  /\ timerLast' = TimerEvent(IF wsT # NULL /\ wsTState[wsT] = "OPEN" THEN "ping" ELSE "tick",
                             FALSE, 0, failures)
  /\ UNCHANGED <<runtimeEvents, failures>>

TimerNext ==
  \/ OnKeepaliveInterval
  \/ \E s \in TimerSockets : TimerOnOpen(s)
  \/ \E s \in TimerSockets : TimerPeerStartsClosing(s)
  \/ \E s \in TimerSockets : TimerOnClose(s)
  \/ \E b \in BOOLEAN : OnReconnectTimer(b)
  \/ \E b \in BOOLEAN : OnRuntimeEvent(b)

(* ------------- the page: content script and command routing ------------ *)

\* characters of a locator and of the text in a page
Chars == {"a", "A", " ", "/"}
Strings(n) == UNION { [1..k -> Chars] : k \in 0..n }
Locators == Strings(MaxLocatorLen)

\* String.prototype.trim
RECURSIVE TrimLeft(_)
TrimLeft(s) == IF s # << >> /\ Head(s) = " " THEN TrimLeft(Tail(s)) ELSE s
RECURSIVE TrimRight(_)
TrimRight(s) ==
  IF s # << >> /\ s[Len(s)] = " " THEN TrimRight(SubSeq(s, 1, Len(s) - 1)) ELSE s
Trim(s) == TrimRight(TrimLeft(s))

\* String.prototype.startsWith
StartsWith(s, prefix) ==
  Len(s) >= Len(prefix) /\ SubSeq(s, 1, Len(prefix)) = prefix

\* the elements of the document, numbered in document order:
\* html(1) [ head(2) [ title(3) ], body(4) [ div(5) [ span(6) ] ] ]
Nodes == 1..6
Parent == <<0, 1, 2, 1, 4, 5>>
BODY == 4

\* the text a text-bearing element holds itself
OwnTexts == { << >>, <<"a">>, <<"A", " ">>, <<"a", "A">> }
\* the documents: title and span hold text of their own
Docs ==
  { [n \in Nodes |-> IF n = 3 THEN t ELSE IF n = 6 THEN u ELSE << >>] :
      t \in OwnTexts, u \in OwnTexts }
BlankDoc == [n \in Nodes |-> << >>]

\* m is n or a descendant of n
RECURSIVE Within(_, _)
Within(m, n) == IF m = 0 THEN FALSE ELSE m = n \/ Within(Parent[m], n)

\* Node.textContent: the text of the element's subtree, in document order
RECURSIVE TextFrom(_, _, _)
TextFrom(text, n, m) ==
  IF m > Len(Parent) THEN << >>
  ELSE (IF Within(m, n) THEN text[m] ELSE << >>) \o TextFrom(text, n, m + 1)
textContent(text, n) == TextFrom(text, n, n)

\* what document.querySelector / document.evaluate gives for a locator: it
\* throws, finds nothing, or finds a node
QueryThrows == [kind |-> "throws", node |-> NULL]
QueryNone == [kind |-> "none", node |-> NULL]
QueryNode(n) == [kind |-> "node", node |-> n]
NoQuery == [kind |-> "unused", node |-> NULL]
QueryResults == {QueryThrows, QueryNone, QueryNode(BODY), QueryNode(6)}

\* a CSS selector over Chars: type selectors and descendant combinators; a
\* blank string and a "/" are syntax errors
ValidCss(selector) ==
  /\ Trim(selector) # << >>
  /\ \A i \in 1..Len(selector) : selector[i] # "/"

\* the outcomes the two engines can have for a locator: querySelector throws
\* exactly on an invalid selector; a blank XPath expression is invalid
InputOk(selector, css, xpath) ==
  /\ css.kind = "throws" <=> ~ValidCss(selector)
  /\ Trim(selector) = << >> => xpath.kind = "throws"

\* the TreeWalker loop: the first element after node n - 1, inside the body,
\* whose trimmed textContent is the trimmed selector
RECURSIVE Walk(_, _, _)
Walk(text, selector, n) ==
  IF n > Len(Parent) THEN NULL
  ELSE IF Within(n, BODY) /\ n # BODY
          /\ Trim(textContent(text, n)) = Trim(selector) THEN n
  ELSE Walk(text, selector, n + 1)

\* (mutant) the XPath query is tried before the CSS query
resolveElementXPathFirst(selector, css, xpath, text) ==
  IF selector = << >> THEN NULL
  ELSE IF xpath.kind = "node" THEN xpath.node
  ELSE IF css.kind = "node" THEN css.node
  ELSE Walk(text, selector, BODY + 1)

resolveElement(selector, css, xpath, text) ==
  IF selector = << >> THEN NULL
  ELSE IF css.kind = "node" THEN css.node
  ELSE IF xpath.kind = "node" THEN xpath.node
  ELSE Walk(text, selector, BODY + 1)

\* an error message: its fixed text and the value interpolated into it
Msg(text, arg) == [text |-> text, arg |-> arg]
NoError == Msg("", << >>)
NotFoundMsg(selector) == Msg("Element not found: ", selector)
SyntaxErrorMsg(selector) == Msg("is not a valid selector: ", selector)
NoReceiverMsg == Msg("Could not establish connection. Receiving end does not exist.", << >>)
ContentDefaultMsg == Msg("Content script error", << >>)
msg_error_or(m, d) == IF m = NoError THEN d ELSE m

\* the actions handleCommand forwards to the content script
ContentActions == {"click", "fill", "scrape", "scroll", "hover", "get_text"}

\* what one listener of the content script does with a message: the element
\* it looked up (lookup: "found", "none", "throws", or "unused" when the
\* command runs without one) and its sendResponse argument
Response(success, error, lookup, el) ==
  [success |-> success, error |-> error, lookup |-> lookup, el |-> el]

scrape(selector, css) ==
  IF selector = << >> THEN Response(TRUE, NoError, "unused", NULL)
  ELSE IF css.kind = "throws" THEN Response(FALSE, SyntaxErrorMsg(selector), "throws", NULL)
  ELSE IF css.kind = "node" THEN Response(TRUE, NoError, "found", css.node)
  ELSE Response(TRUE, NoError, "none", NULL)

onContentMessage(action, selector, css, xpath, text) ==
  IF action = "scrape" THEN scrape(selector, css)
  ELSE IF action = "scroll" /\ selector = << >> THEN Response(TRUE, NoError, "unused", NULL)
  ELSE LET el == resolveElement(selector, css, xpath, text) IN
       IF el = NULL THEN Response(FALSE, NotFoundMsg(selector), "none", NULL)
       ELSE Response(TRUE, NoError, "found", el)

\* params.value of a command: given or absent; only fill reads it
FillValues(action) == IF action = "fill" THEN {"given", "absent"} ELSE {"absent"}

\* what a listener's run does to the page: click and hover dispatch mouse
\* events on the element, scroll scrolls, fill writes params.value into the
\* element ("undefined": the absent value) and dispatches input and change;
\* a run that throws has done nothing yet
pageEffect(action, r, value) ==
  IF ~r.success THEN "none"
  ELSE IF action \in {"click", "hover"} THEN "events"
  ELSE IF action = "scroll" THEN "scrolled"
  ELSE IF action = "fill" THEN (IF value = "given" THEN "value" ELSE "undefined")
  ELSE "none"

\* URLs a navigate command may carry
HttpPrefix == <<"h", "t", "t", "p">>
HttpsScheme == <<"h", "t", "t", "p", "s", ":", "/", "/">>
Urls ==
  { << >>,
    <<"a", ".", "b">>,
    HttpPrefix \o <<"b", ".", "i", "n">>,
    HttpPrefix \o <<":", "/", "/", "a">>,
    HttpsScheme \o <<"a">> }

\* const targetUrl = url.startsWith("http") ? url : `https://${url}`
targetUrl(url) == IF StartsWith(url, HttpPrefix) THEN url ELSE HttpsScheme \o url

\* the command in progress: what was submitted, what the content script
\* answered, the id sendCommand generated, the id of the reply frame the
\* worker sent, and the error the caller's promise got (NoError: resolved)
ExecRecord(op, action, selector, css, xpath, response, executions, id, frameId, caller, url, target, install, effect) ==
  [op |-> op, action |-> action, selector |-> selector, css |-> css, xpath |-> xpath,
   response |-> response, executions |-> executions, id |-> id, frameId |-> frameId,
   caller |-> caller, url |-> url, target |-> target, install |-> install,
   effect |-> effect]
NoResponse == Response(FALSE, NoError, "unused", NULL)
ExecIdle ==
  ExecRecord("idle", "", << >>, NoQuery, NoQuery, NoResponse, 0, NoId, NoId, NoError,
             << >>, << >>, "none", "none")

(* -------- background.js: ws.onmessage, from command to reply ---------- *)

\* what handleCommand waits for: the content script's response with its
\* 15 s timeout (forwardToContentScript), or the tab's onCompleted event
\* with its 30 s timeout (waitForTabLoad)
CommandKinds == {"content", "navigate"}

\* the command of the onmessage handler: the socket it arrived on, its id,
\* the promise handleCommand returned (settled: "no", "ok", "err"), the
\* timeout timer, the callback or listener still outstanding, continuations
\* of the await not yet run, frames sent, the id and the socket of the frame,
\* and whether the command's socket was open when the continuation ran
CmdIdle ==
  [phase |-> "idle", kind |-> "content", sock |-> NULL, id |-> NoId, settled |-> "no",
   timer |-> FALSE, listening |-> FALSE, runs |-> 0, sent |-> 0, frameId |-> NoId,
   on |-> NULL, open |-> FALSE]

\* resolve / reject of a promise: only the first call settles it and queues
\* the continuation of the await
SettlePromise(c, outcome) ==
  IF c.settled = "no" THEN [c EXCEPT !.settled = outcome, !.runs = @ + 1] ELSE c

SetCmd(c) ==
  /\ cmd' = c
  /\ UNCHANGED <<relayVars, alarmVars, timerVars, reachable, awake, pageText, listeners, exec>>

\* onmessage of socket s with a command: handleCommand is called and awaited
OnCommandMessage(s, kind, id) ==
  /\ wsState[s] = "OPEN"
  /\ cmd.phase = "idle"
  /\ SetCmd([CmdIdle EXCEPT !.phase = "waiting", !.kind = kind, !.sock = s, !.id = id,
                            !.timer = TRUE, !.listening = TRUE])

\* the sendMessage callback runs with the content script's response, or the
\* onCompleted listener runs: clearTimeout, then resolve or reject
ResponseArrives(ok) ==
  /\ cmd.phase # "idle"
  /\ cmd.listening
  /\ cmd.kind = "navigate" => ok
  /\ SetCmd(SettlePromise([cmd EXCEPT !.timer = FALSE, !.listening = FALSE],
                          IF ok THEN "ok" ELSE "err"))

\* the timeout fires: reject; waitForTabLoad removes its listener first, the
\* sendMessage callback stays outstanding
TimeoutFires ==
  /\ cmd.phase # "idle"
  /\ cmd.timer
  /\ SetCmd(SettlePromise([cmd EXCEPT !.timer = FALSE,
                                      !.listening = IF cmd.kind = "navigate" THEN FALSE ELSE @],
                          "err"))

\* the continuation of the await: send({ id, success, ... }), and send()
\* writes to ws only if ws is an open socket
SendReply ==
  /\ cmd.runs > 0
  /\ LET canSend == ws # NULL /\ wsState[ws] = "OPEN" IN
     SetCmd([cmd EXCEPT !.phase = "done",
                        !.runs = @ - 1,
                        !.sent = IF canSend THEN @ + 1 ELSE @,
                        !.frameId = IF canSend THEN cmd.id ELSE @,
                        !.on = IF canSend THEN ws ELSE @,
                        !.open = wsState[cmd.sock] = "OPEN"])

\* the handler has returned; the next command may arrive
CommandOver ==
  /\ cmd.phase = "done"
  /\ cmd.runs = 0
  /\ SetCmd(CmdIdle)

PageIdle ==
  /\ pageText = BlankDoc
  /\ listeners = 0
  /\ exec = ExecIdle
  /\ cmd = CmdIdle

\* a page is loaded in the active tab; a content script the manifest declares
\* (the manifest is not among the sources) registers one listener
PageInit ==
  /\ pageText \in Docs
  /\ listeners \in {0, 1}
  /\ exec = ExecIdle
  /\ cmd = CmdIdle

\* resolveElement applied to a locator on the loaded page
ResolveCall(selector, css, xpath) ==
  /\ exec.op = "idle"
  /\ listeners > 0
  /\ InputOk(selector, css, xpath)
  /\ exec' = ExecRecord("resolve", "", selector, css, xpath,
                        Response(TRUE, NoError, "unused",
                                 resolveElement(selector, css, xpath, pageText)),
                        1, NoId, NoId, NoError, << >>, << >>, "none", "none")
  /\ UNCHANGED <<pageText, listeners, cmd, relayVars, alarmVars, timerVars, reachable, awake>>

\* crypto.randomUUID(): an id that is not the one the caller put in params
FreshId(params) == CHOOSE i \in Ids : i # params.id

\* the params of a command that keep its action
ExecParams == { p \in ParamsSet : p.action = "" }

\* (mutant) a failed injection ends the command: nothing is sent to the tab
\* and the caller gets the error of executeScript
ForwardInstallRequired(action, selector, css, xpath, injected, params, value) ==
  /\ exec.op = "idle"
  /\ InputOk(selector, css, xpath)
  /\ injected => listeners < MaxListeners
  /\ LET id == FreshId(params)
         envelope == Payload(id, action, params)
         n == IF injected THEN listeners + 1 ELSE 0
         r == IF n = 0 THEN NoResponse
              ELSE onContentMessage(envelope.action, selector, css, xpath, pageText)
         error == IF n = 0 THEN Msg("Cannot access contents of the page", << >>)
                  ELSE IF r.success THEN NoError
                  ELSE msg_error_or(r.error, ContentDefaultMsg)
         caller == IF envelope.id # id THEN Msg(TimeoutMsg, << >>) ELSE error IN
     /\ listeners' = IF injected THEN listeners + 1 ELSE listeners
     /\ exec' = ExecRecord("forward", action, selector, NoQuery, NoQuery, r, n,
                           id, envelope.id, caller, << >>, << >>,
                           IF injected THEN "ok" ELSE "failed",
                           IF n = 0 THEN "none" ELSE pageEffect(envelope.action, r, value))
  /\ UNCHANGED <<pageText, cmd, relayVars, alarmVars, timerVars, reachable, awake>>

\* the path of one command for the content script: sendCommand builds the
\* envelope, the worker's onmessage takes id and action from it,
\* forwardToContentScript injects the content script (one more listener when
\* the injection succeeds; install: how executeScript ended, "none" for a
\* command without this step) and sends the message, every listener in the page
\* handles it, the worker replies with the id it was given, and the message
\* handler of the bridge server resolves the caller whose id the reply holds
ForwardToContentScript(action, selector, css, xpath, injected, params, value) ==
  /\ exec.op = "idle"
  /\ InputOk(selector, css, xpath)
  /\ injected => listeners < MaxListeners
  /\ LET id == FreshId(params)
         envelope == Payload(id, action, params)
         n == IF injected THEN listeners + 1 ELSE listeners
         r == IF n = 0 THEN NoResponse
              ELSE onContentMessage(envelope.action, selector, css, xpath, pageText)
         error == IF n = 0 THEN NoReceiverMsg
                  ELSE IF r.success THEN NoError
                  ELSE msg_error_or(r.error, ContentDefaultMsg)
         caller == IF envelope.id # id THEN Msg(TimeoutMsg, << >>)
                   ELSE IF error = NoError THEN NoError
                   ELSE msg_error_or(error, Msg(DefaultFailMsg, << >>)) IN
     /\ listeners' = n
     /\ exec' = ExecRecord("forward", action, selector, NoQuery, NoQuery, r, n,
                           id, envelope.id, caller, << >>, << >>,
                           IF injected THEN "ok" ELSE "failed",
                           IF n = 0 THEN "none" ELSE pageEffect(envelope.action, r, value))
  /\ UNCHANGED <<pageText, cmd, relayVars, alarmVars, timerVars, reachable, awake>>

\* navigate: the tab is sent to targetUrl and loads a new page
Navigate(url) ==
  /\ exec.op = "idle"
  /\ IF url = << >>
       THEN /\ exec' = ExecRecord("navigate", "navigate", << >>, NoQuery, NoQuery,
                                  NoResponse, 0, NoId, NoId,
                                  Msg("navigate requires a 'url' parameter", << >>),
                                  url, << >>, "none", "none")
            /\ UNCHANGED <<pageText, listeners>>
       ELSE /\ exec' = ExecRecord("navigate", "navigate", << >>, NoQuery, NoQuery,
                                  NoResponse, 0, NoId, NoId, NoError, url, targetUrl(url),
                                  "none", "none")
            /\ pageText' \in Docs
            /\ listeners' \in {0, 1}
  /\ UNCHANGED <<cmd, relayVars, alarmVars, timerVars, reachable, awake>>

\* the command is over
ExecDone ==
  /\ exec.op # "idle"
  /\ exec' = ExecIdle
  /\ UNCHANGED <<pageText, listeners, cmd, relayVars, alarmVars, timerVars, reachable, awake>>

\* a command starts when none is in progress
ExecNext ==
  \/ /\ exec.op = "idle"
     /\ \E l \in Locators, c \in QueryResults, x \in QueryResults : ResolveCall(l, c, x)
  \/ /\ exec.op = "idle"
     /\ \E a \in ContentActions :
          \E l \in Locators, c \in QueryResults, x \in QueryResults,
             b \in BOOLEAN, p \in ExecParams, v \in FillValues(a) :
               ForwardToContentScript(a, l, c, x, b, p, v)
  \/ \E u \in Urls : Navigate(u)
  \/ ExecDone

(* --------------------------- specifications ---------------------------- *)

\* the bridge server starts; the extension is not loaded
Init ==
  /\ RelayInit
  /\ ws = LinkBlank.ws
  /\ wsState = LinkBlank.wsState
  /\ reconnectAlarm = LinkBlank.reconnectAlarm
  /\ keepaliveAlarm = LinkBlank.keepaliveAlarm
  /\ pendingGets = LinkBlank.pendingGets
  /\ linkLast = LinkEvent("idle", FALSE)
  /\ TimerIdle
  /\ reachable = TRUE
  /\ awake = TRUE
  /\ PageIdle

Next ==
  \/ \E s \in Sockets : OnConnection(s)
  \/ \E s \in Sockets : StartClosing(s)
  \/ \E s \in Sockets, f \in Frames : OnMessage(s, f)
  \/ \E s \in Sockets : OnClose(s)
  \/ \E a \in Actions, p \in ParamsSet : sendCommand(a, p)
  \/ \E c \in Callers : TimerFires(c)
  \/ shutdown

Spec == Init /\ [][Next]_vars

\* the extension's worker has started; the bridge server is idle
LinkSpecInit ==
  RelayInit /\ LinkInit /\ TimerIdle /\ reachable = TRUE /\ awake = TRUE /\ PageIdle

\* the extension's link manager alone, driven by socket and alarm events
LinkSpec == LinkSpecInit /\ [][LinkNext]_vars

\* the bridge server is idle, no alarm-based worker is loaded
LinkIdle ==
  /\ ws = LinkBlank.ws
  /\ wsState = LinkBlank.wsState
  /\ reconnectAlarm = LinkBlank.reconnectAlarm
  /\ keepaliveAlarm = LinkBlank.keepaliveAlarm
  /\ pendingGets = LinkBlank.pendingGets
  /\ linkLast = LinkEvent("idle", FALSE)

\* the timer-based worker has started; the bridge server is idle
TimerSpecInit ==
  RelayInit /\ LinkIdle /\ TimerInit /\ reachable = TRUE /\ awake = TRUE /\ PageIdle

\* the timer-based link manager alone, driven by socket, timer and runtime events
TimerSpec == TimerSpecInit /\ [][TimerNext]_vars

\* the frames that differ in how the message handler treats them, one datum
\* and one error text each
PlainFrames ==
  {InvalidFrame, NullFrame} \cup
  { f \in Frames : f.body = "object" /\ f.type # "extension_ready" /\ f.data # "d2"
                     /\ (f.success \/ f.error # "") }

FairNext ==
  \/ \E s \in Sockets : OnConnection(s)
  \/ \E s \in Sockets : StartClosing(s)
  \/ \E s \in Sockets, f \in PlainFrames : OnMessage(s, f)
  \/ \E s \in Sockets : OnClose(s)
  \/ \E a \in Actions, p \in ParamsSet : sendCommand(a, p)
  \/ \E c \in Callers : TimerFires(c)
  \/ shutdown

\* Node's event loop runs the callback of every armed timer
FairSpec == Init /\ [][FairNext]_vars /\ \A c \in Callers : WF_vars(TimerFires(c))

\* the bridge server and the workers are idle; a page is loaded
ExecInit ==
  RelayInit /\ LinkIdle /\ TimerIdle /\ reachable = TRUE /\ awake = TRUE /\ PageInit

\* commands routed by the worker and executed by the content script
ExecSpec == ExecInit /\ [][ExecNext]_vars

\* the alarm-based worker with its link manager and its command handler;
\* an armed timeout fires and a queued continuation runs
CommandNext ==
  \/ \E s \in ClientSockets : OnOpen(s)
  \/ \E s \in ClientSockets : PeerStartsClosing(s)
  \/ \E s \in ClientSockets : OnSocketClose(s)
  \/ GetCallback
  \/ \E b \in BOOLEAN : OnReconnectAlarm(b)
  \/ OnKeepaliveAlarm
  \/ \E s \in ClientSockets, k \in CommandKinds, i \in Ids : OnCommandMessage(s, k, i)
  \/ \E b \in BOOLEAN : ResponseArrives(b)
  \/ TimeoutFires
  \/ SendReply
  \/ CommandOver

CommandSpec ==
  LinkSpecInit /\ [][CommandNext]_vars /\ WF_vars(TimeoutFires) /\ WF_vars(SendReply)

(* ------------- the workers with their environment, fairly ------------- *)

\* the alarm-based / the timer-based worker is the one that started
AlarmLoaded == linkLast.op # "idle"
TimerLoaded == timerLast.op # "idle"

\* a closed WebSocket object nobody refers to is collected
Collect(s) ==
  /\ wsState[s] = "CLOSED"
  /\ ws # s
  /\ SetLink([LinkState EXCEPT !.wsState[s] = "NONE"])
  /\ UNCHANGED <<linkLast, relayVars>>

\* the bridge server goes down or comes back
ReachabilityChanges ==
  /\ reachable' = ~reachable
  /\ UNCHANGED <<relayVars, alarmVars, timerVars, awake, pageVars>>

\* the browser terminates the idle alarm-based worker (background.js 257-259),
\* connected or not: its memory and its sockets are gone, no handler runs,
\* the alarms stay. A worker is idle when no handshake is under way and no
\* chrome.alarms call is waiting for its callback.
AlarmWorkerTerminated ==
  /\ awake
  /\ AlarmLoaded
  /\ \A s \in ClientSockets : wsState[s] # "CONNECTING"
  /\ pendingGets = << >>
  /\ awake' = FALSE
  /\ SetAlarmState([LinkState EXCEPT
       !.ws = NULL,
       !.wsState = [s \in ClientSockets |->
                      IF wsState[s] \in {"OPEN", "CLOSING"} THEN "CLOSED" ELSE wsState[s]]])
  /\ linkLast' = LinkEvent("terminated", FALSE)
  /\ UNCHANGED <<relayVars, timerVars, reachable, pageVars>>

\* an alarm wakes the terminated worker: the script runs (its connect() at
\* line 516), then the onAlarm listener handles the alarm; the WebSocket
\* constructor throws only while the endpoint is not reachable
WakeOnReconnectAlarm(thrown) ==
  /\ ~awake
  /\ reconnectAlarm
  /\ thrown => ~reachable
  /\ LET st1 == connect(LinkState, thrown)
         st2 == connect(st1, thrown) IN
     /\ ConnectInBounds(LinkState, thrown)
     /\ thrown => Len(st1.pendingGets) < MaxPendingGets
     /\ SetAlarmState(st2)
  /\ awake' = TRUE
  /\ linkLast' = LinkEvent("wake", TRUE)
  /\ UNCHANGED <<relayVars, timerVars, reachable, pageVars>>

WakeOnKeepaliveAlarm(thrown) ==
  /\ ~awake
  /\ keepaliveAlarm
  /\ thrown => ~reachable
  /\ LET st1 == connect(LinkState, thrown) IN
     /\ ConnectInBounds(LinkState, thrown)
     /\ Len(st1.pendingGets) < MaxPendingGets
     /\ SetAlarmState(ensureReconnectAlarm([st1 EXCEPT !.keepaliveAlarm = FALSE]))
  /\ awake' = TRUE
  /\ linkLast' = LinkEvent("wake", TRUE)
  /\ UNCHANGED <<relayVars, timerVars, reachable, pageVars>>

\* the browser terminates the idle timer-based worker: its memory, its
\* sockets and its setTimeout timers are gone
TimerWorkerTerminated ==
  /\ awake
  /\ TimerLoaded
  /\ ~TimerHandleLive(TimerState)
  /\ \A s \in TimerSockets : wsTState[s] # "CONNECTING"
  /\ awake' = FALSE
  /\ SetTimerState(TimerBlank)
  /\ timerLast' = TimerEvent("terminated", FALSE, 0, failures)
  /\ UNCHANGED <<relayVars, alarmVars, reachable, pageVars, runtimeEvents, failures>>

\* onStartup / onInstalled wakes the terminated worker: the script runs (its
\* connect() at line 240), then the listener calls connect() again
WakeOnRuntimeEvent(thrown) ==
  /\ ~awake
  /\ TimerLoaded
  /\ runtimeEvents > 0
  /\ thrown => ~reachable
  /\ runtimeEvents' = runtimeEvents - 1
  /\ thrown => failures + 1 < MaxFailures
  /\ SetTimerState(timerConnect(timerConnect(TimerState, thrown), thrown))
  /\ failures' = IF thrown THEN failures + 2 ELSE failures
  /\ awake' = TRUE
  /\ timerLast' = TimerEvent("wake", TRUE, 0, failures)
  /\ UNCHANGED <<relayVars, alarmVars, reachable, pageVars>>

\* the events the environment allows: handlers run only in a running worker;
\* a handshake completes only while the endpoint is reachable; a socket is
\* lost, a handshake fails and a constructor throws only while it is not; a
\* closing handshake always ends
EnvOpen(s) == reachable /\ OnOpen(s)
EnvStartsClosing(s) == ~reachable /\ PeerStartsClosing(s)
EnvClose(s) == (~reachable \/ wsState[s] = "CLOSING") /\ OnSocketClose(s)
EnvClosingEnds(s) == wsState[s] = "CLOSING" /\ OnSocketClose(s)
EnvReconnectAlarm(thrown) == awake /\ (thrown => ~reachable) /\ OnReconnectAlarm(thrown)
EnvKeepaliveAlarm == awake /\ OnKeepaliveAlarm
EnvTimerOpen(s) == reachable /\ TimerOnOpen(s)
EnvTimerStartsClosing(s) == ~reachable /\ TimerPeerStartsClosing(s)
EnvTimerClose(s) == (~reachable \/ wsTState[s] = "CLOSING") /\ TimerOnClose(s)
EnvTimerClosingEnds(s) == wsTState[s] = "CLOSING" /\ TimerOnClose(s)
EnvReconnectTimer(thrown) == (thrown => ~reachable) /\ OnReconnectTimer(thrown)
EnvRuntimeEvent(thrown) == awake /\ (thrown => ~reachable) /\ OnRuntimeEvent(thrown)
EnvKeepaliveInterval == awake /\ TimerLoaded /\ OnKeepaliveInterval

\* one of the two versions of the worker has started
WorkerInit ==
  /\ RelayInit
  /\ reachable \in BOOLEAN
  /\ awake = TRUE
  /\ PageIdle
  /\ \/ LinkInit /\ TimerIdle
     \/ LinkIdle /\ TimerInit

WorkerNext ==
  \/ \E s \in ClientSockets : EnvOpen(s)
  \/ \E s \in ClientSockets : EnvStartsClosing(s)
  \/ \E s \in ClientSockets : EnvClose(s)
  \/ \E s \in ClientSockets : Collect(s)
  \/ GetCallback
  \/ \E b \in BOOLEAN : EnvReconnectAlarm(b)
  \/ EnvKeepaliveAlarm
  \/ AlarmWorkerTerminated
  \/ \E b \in BOOLEAN : WakeOnReconnectAlarm(b)
  \/ \E b \in BOOLEAN : WakeOnKeepaliveAlarm(b)
  \/ \E s \in TimerSockets : EnvTimerOpen(s)
  \/ \E s \in TimerSockets : EnvTimerStartsClosing(s)
  \/ \E s \in TimerSockets : EnvTimerClose(s)
  \/ \E b \in BOOLEAN : EnvReconnectTimer(b)
  \/ \E b \in BOOLEAN : EnvRuntimeEvent(b)
  \/ EnvKeepaliveInterval
  \/ TimerWorkerTerminated
  \/ \E b \in BOOLEAN : WakeOnRuntimeEvent(b)
  \/ ReachabilityChanges

\* alarms fire (and wake the worker), timers of a running worker fire,
\* callbacks run, a handshake with a reachable endpoint completes, a closing
\* handshake ends, garbage is collected
WorkerFairness ==
  /\ WF_vars(GetCallback)
  /\ WF_vars(\E b \in BOOLEAN : EnvReconnectAlarm(b))
  /\ WF_vars(EnvKeepaliveAlarm)
  /\ WF_vars(\E b \in BOOLEAN : WakeOnReconnectAlarm(b))
  /\ WF_vars(\E b \in BOOLEAN : WakeOnKeepaliveAlarm(b))
  /\ WF_vars(\E b \in BOOLEAN : EnvReconnectTimer(b))
  /\ \A s \in ClientSockets :
       WF_vars(EnvOpen(s)) /\ WF_vars(EnvClosingEnds(s)) /\ WF_vars(Collect(s))
  /\ \A s \in TimerSockets :
       WF_vars(EnvTimerOpen(s)) /\ WF_vars(EnvTimerClosingEnds(s))

WorkerFairSpec == WorkerInit /\ [][WorkerNext]_vars /\ WorkerFairness

(* ------------------------------ claims --------------------------------- *)

\* a Reply Envelope: parseable, no control type
IsReplyFrame(f) == f.body = "object" /\ f.type = ""
\* the caller's promise is settled
Resolved(c) == result[c].kind \in {"ok", "err"}
\* the peer link is open
LinkOpen == extensionSocket # NULL /\ readyState[extensionSocket] = "OPEN"

\* C1: when a success reply carrying the id of a caller that is still waiting
\* (submitted while connected, deadline not fired) arrives, that caller is
\* resolved with exactly the reply's data and its id leaves the pending
\* table; a resolved caller's id is never in the table.
C1_ReplyResolvesWithData ==
  /\ [](\A c \in Callers : Resolved(c) => cid[c] \notin DOMAIN pendingCommands)
  /\ [][\A c \in Callers :
          (/\ last'.op = "message"
           /\ IsReplyFrame(last'.frame)
           /\ last'.frame.success
           /\ result[c] = Waiting
           /\ last'.frame.id = cid[c])
          => (/\ result'[c] = Ok(last'.frame.data)
              /\ cid[c] \notin DOMAIN pendingCommands')]_vars

C1_Witness ==
  \E c \in Callers :
    /\ last.op = "message"
    /\ last.frame.id = cid[c]
    /\ last.frame.data = "d2"
    /\ result[c] = Ok("d2")

\* C2: a submit issued while the peer link is null or not OPEN is rejected in
\* the same step with the not-connected error, arms no timer, adds no entry
\* to the pending table and forwards no message.
C2_DisconnectedSubmit ==
  [][(last'.op = "submit" /\ ~LinkOpen)
      => (/\ result'[last'.caller] = Err(NotConnectedMsg)
          /\ timers' = timers
          /\ pendingCommands' = pendingCommands
          /\ last'.out = NoMsg)]_vars

C2_Witness ==
  /\ last.op = "submit"
  /\ result[last.caller] = Err(NotConnectedMsg)
  /\ extensionSocket # NULL
  /\ readyState[extensionSocket] = "CLOSING"

\* C3: when the socket that is the peer link closes, every caller that was
\* waiting is rejected with the disconnected error, no timer of theirs stays
\* armed and the pending table is empty.
C3_LinkLossRejectsAll ==
  [][(last'.op = "close" /\ last'.sock = extensionSocket)
      => (/\ pendingCommands' = << >>
          /\ \A c \in Callers :
               result[c] = Waiting
                 => (result'[c] = Err(DisconnectedMsg) /\ c \notin timers'))]_vars

C3_Witness ==
  /\ last.op = "close"
  /\ extensionSocket = NULL
  /\ \A c \in Callers : result[c] = Err(DisconnectedMsg)

\* C4: resolve/reject is invoked at most once per caller, and once a caller
\* holds a result no later event changes it.
C4_ResolvedOnce ==
  /\ [](\A c \in Callers : settles[c] <= 1)
  /\ [][\A c \in Callers : Resolved(c) => result'[c] = result[c]]_vars

C4_Witness ==
  \E c \in Callers :
    /\ result[c].kind = "ok"
    /\ settles[c] = 1
    /\ last.op = "close"

\* C5: every waiting caller is eventually resolved, and a deadline timer that
\* fires while its caller is still waiting gives that caller the Timeout
\* error.
C5_EventuallyResolved ==
  /\ \A c \in Callers : (result[c] = Waiting) ~> Resolved(c)
  /\ [][\A c \in Callers :
          (last'.op = "timeout" /\ last'.caller = c /\ result[c] = Waiting)
            => result'[c] = Err(TimeoutMsg)]_vars

\* C6: after a caller's deadline fired its id is not in the pending table,
\* and no later event (a late reply with that id included) changes its
\* Timeout result or puts the id back.
C6_LateReplyDropped ==
  /\ [](\A c \in Callers :
          result[c] = Err(TimeoutMsg) => cid[c] \notin DOMAIN pendingCommands)
  /\ [][\A c \in Callers :
          result[c] = Err(TimeoutMsg) => result'[c] = Err(TimeoutMsg)]_vars

C6_Witness ==
  \E c \in Callers :
    /\ result[c] = Err(TimeoutMsg)
    /\ last.op = "message"
    /\ IsReplyFrame(last.frame)
    /\ last.frame.success
    /\ last.frame.id = cid[c]

\* C7: a reply whose id is no key of the pending table changes nothing: the
\* table, the armed timers, every caller's result and the link are as before.
C7_UnknownIdNoEffect ==
  [][(/\ last'.op = "message"
      /\ IsReplyFrame(last'.frame)
      /\ last'.frame.id \notin DOMAIN pendingCommands)
      => UNCHANGED <<running, readyState, extensionSocket, pendingCommands,
                     timers, nextId, nCallers, cid, result, settles>>]_vars

C7_Witness ==
  /\ last.op = "message"
  /\ IsReplyFrame(last.frame)
  /\ last.frame.id # NoId
  /\ \A c \in Callers : cid[c] # last.frame.id
  /\ pendingCommands # << >>

\* C8: a message changes the result of no caller but the one whose id it
\* carries, whatever the order of the replies; and a submit made while the
\* link is open is forwarded in the same step, on the current link, whether
\* or not other requests are outstanding.
C8_MatchedById ==
  /\ [][last'.op = "message"
          => \A c \in Callers :
               result'[c] # result[c] => cid[c] = last'.frame.id]_vars
  /\ [][(last'.op = "submit" /\ LinkOpen)
          => (last'.out # NoMsg /\ last'.sock = extensionSocket)]_vars

C8_Witness ==
  /\ last.op = "message"
  /\ cid[1] # NoId
  /\ result[1] = Waiting
  /\ last.frame.id = cid[2]
  /\ result[2].kind = "ok"

\* C9: the ids of the waiting callers are pairwise distinct, each waiting
\* caller owns the table entry under its id, and the id a submit generates
\* is no key of the table at that moment.
C9_UniqueLiveIds ==
  /\ [](\A c \in Callers :
          result[c] = Waiting
            => (cid[c] \in DOMAIN pendingCommands /\ pendingCommands[cid[c]].caller = c))
  /\ [](\A c, d \in Callers :
          (c # d /\ result[c] = Waiting /\ result[d] = Waiting) => cid[c] # cid[d])
  /\ [][(last'.op = "submit" /\ last'.out # NoMsg)
          => cid'[last'.caller] \notin DOMAIN pendingCommands]_vars

C9_Witness ==
  /\ Cardinality(DOMAIN pendingCommands) >= 2
  /\ last.op = "submit"


\* the WebSocket objects of the extension that are connecting or open
LiveSockets == { s \in ClientSockets : wsState[s] \in {"CONNECTING", "OPEN"} }

\* C10: at most one WebSocket of the extension is connecting or open at any
\* time, whatever connect, open, close and alarm events occur.
C10_AtMostOneLive == Cardinality(LiveSockets) <= 1

(* ----------------- claims: the timer-based link manager ---------------- *)

\* doublings of the base delay that reach the ceiling
Doublings ==
  CHOOSE n \in 0..MaxFailures :
    /\ RECONNECT_BASE_MS * 2^n >= RECONNECT_MAX_MS
    /\ \A m \in 0..MaxFailures : m < n => RECONNECT_BASE_MS * 2^m < RECONNECT_MAX_MS

\* the handle of the timer-based worker refers to an open socket
TimerConnected == wsT # NULL /\ wsTState[wsT] = "OPEN"

\* C11: when the reconnect timer starts an attempt after k consecutive failed
\* attempts (1 <= k <= the doublings that reach the ceiling), the delay that
\* timer was armed with is min(floor * 2^k, ceiling), floor 1000 ms and
\* ceiling 30000 ms.
C11_BackoffWait ==
  (timerLast.op = "timer" /\ timerLast.attempt /\ timerLast.k \in 1..Doublings)
    => timerLast.wait = Min(RECONNECT_BASE_MS * 2^(timerLast.k), RECONNECT_MAX_MS)

\* C20: while the handle is open the backoff delay is at its floor, and when
\* a socket that had opened closes, the reconnect timer is armed with the
\* floor delay.
C20_FloorAfterConnected ==
  /\ [](TimerConnected => reconnectDelay = RECONNECT_BASE_MS)
  /\ [][\A s \in TimerSockets :
          (wsTState[s] \in {"OPEN", "CLOSING"} /\ wsTState'[s] = "NONE")
            => reconnectTimer' = RECONNECT_BASE_MS]_vars

(* ---------------------- claims: reconnection --------------------------- *)

\* the started worker's handle refers to no connecting or open socket
Disconnected ==
  \/ AlarmLoaded /\ ~HandleLive(LinkState)
  \/ TimerLoaded /\ ~TimerHandleLive(TimerState)
\* the handler that ran last called new WebSocket
AttemptMade ==
  \/ AlarmLoaded /\ linkLast.attempt
  \/ TimerLoaded /\ timerLast.attempt
\* the started worker's handle refers to an open socket
WorkerConnected ==
  \/ AlarmLoaded /\ ws # NULL /\ wsState[ws] = "OPEN"
  \/ TimerLoaded /\ TimerConnected

\* C12: whenever the link is Disconnected a connection attempt is eventually
\* made by the worker itself, and if the endpoint is reachable from some
\* moment on the link eventually becomes Connected; in both versions of the
\* worker.
C12_Reconnects ==
  /\ Disconnected ~> AttemptMade
  /\ []<>(~reachable \/ WorkerConnected)

\* the actions of the gateway's shortcut endpoints, which are the cases of
\* the extension's handleCommand
SHORTCUT_ACTIONS ==
  {"navigate", "click", "fill", "scrape", "screenshot", "scroll", "hover",
   "get_text", "get_title"}

\* C13: no message whose action is outside the enumerated set is sent to the
\* peer: a submit of such an action forwards nothing.
C13_UnknownActionNotSent ==
  [][(last'.op = "submit" /\ last'.out # NoMsg)
       => last'.out.action \in SHORTCUT_ACTIONS]_vars

\* a frame JSON.parse rejects, or one that carries no id
Malformed(f) == f.body = "invalid" \/ f.id = NoId

\* C14: a message step whose frame is unparseable or id-less resolves no
\* caller, leaves the pending table and its timers unchanged, and leaves the
\* server running with the link as it was.
C14_MalformedDropped ==
  [][(last'.op = "message" /\ Malformed(last'.frame))
       => UNCHANGED <<running, readyState, extensionSocket, pendingCommands,
                      timers, result, settles>>]_vars

(* --------------------- claims: the content script ---------------------- *)

\* the element's trimmed text is the trimmed locator, as a whole and with case
TextMatches(n, selector) == Trim(textContent(pageText, n)) = Trim(selector)

\* the first element of S in document order whose text matches, or NULL
FirstMatch(S, selector) ==
  IF \E n \in S : TextMatches(n, selector)
    THEN CHOOSE n \in S :
           TextMatches(n, selector) /\ \A m \in S : TextMatches(m, selector) => n <= m
    ELSE NULL

\* CSS match, else XPath match, else the first text match among S
OrderedFallback(S) ==
  IF exec.css.kind = "node" THEN exec.css.node
  ELSE IF exec.xpath.kind = "node" THEN exec.xpath.node
  ELSE FirstMatch(S, exec.selector)

BodyDescendants == { n \in Nodes : Within(n, BODY) /\ n # BODY }

\* C15 (as stated): resolve returns the CSS match if any, else the XPath
\* match, else the first element of the document in document order whose
\* trimmed text equals the trimmed locator, else NotFound.
C15_ResolveOrder ==
  exec.op = "resolve" => exec.response.el = OrderedFallback(Nodes)

\* C15 (amended): an empty locator is NotFound; otherwise the CSS match if
\* any, else the XPath match, else the first element below the body in
\* document order whose trimmed text equals the trimmed locator, else NotFound.
C15_ResolveOrderBelowBody ==
  exec.op = "resolve" =>
    exec.response.el =
      IF exec.selector = << >> THEN NULL ELSE OrderedFallback(BodyDescendants)

\* the text fallback picked an element although the root element, which
\* comes first in document order, holds the same text
C15_Witness ==
  /\ exec.op = "resolve"
  /\ exec.css.kind # "node"
  /\ exec.xpath.kind # "node"
  /\ exec.response.el \in BodyDescendants
  /\ TextMatches(1, exec.selector)

\* C16: no command that reached the content script fails with the syntax
\* error of a selector or path query, whatever its locator.
C16_NoSyntaxFailure ==
  (exec.op = "forward" /\ exec.executions > 0)
    => exec.response.error # SyntaxErrorMsg(exec.selector)

\* the url holds no scheme
WithoutScheme(url) == \A i \in 1..Len(url) : url[i] # ":"
\* the url starts with the http or the https scheme
HasHttpScheme(url) ==
  StartsWith(url, HttpPrefix \o <<":", "/", "/">>) \/ StartsWith(url, HttpsScheme)

\* C17: navigate sends a url without a scheme as "https://" followed by the
\* url, and a url with an http or https scheme unchanged.
C17_NavigateUrl ==
  (exec.op = "navigate" /\ exec.url # << >>) =>
    /\ WithoutScheme(exec.url) => exec.target = HttpsScheme \o exec.url
    /\ HasHttpScheme(exec.url) => exec.target = exec.url

\* C18: when the content script finds no element for the command's selector,
\* the caller's promise is rejected with the content script's
\* element-not-found message, which names the selector.
C18_NotFoundVerbatim ==
  (exec.op = "forward" /\ exec.executions > 0 /\ exec.response.lookup = "none")
    => exec.caller = NotFoundMsg(exec.selector)

\* C19: a command that reaches the content script is handled exactly once.
C19_ExactlyOnce ==
  (exec.op = "forward" /\ exec.executions > 0) => exec.executions = 1

(* ------------------- claims: suspension and keep-alive ----------------- *)

\* the alarm-based worker's link is Connected
AlarmConnected == ws # NULL /\ wsState[ws] = "OPEN"
\* a handshake of the alarm-based worker is under way
AttemptInFlight == \E s \in ClientSockets : wsState[s] = "CONNECTING"
\* an alarm that leads to reconnect polling exists, or the call that creates
\* the reconnect alarm is waiting for its callback
TriggerArmed ==
  \/ reconnectAlarm
  \/ keepaliveAlarm
  \/ \E i \in 1..Len(pendingGets) : ~pendingGets[i]

KeepaliveInterval == TimerLoaded /\ awake
\* the keep-alive alarm fired in the running alarm-based worker
AlarmKeepaliveFired == linkLast' # linkLast /\ linkLast'.op \in {"ping", "keepalive"}
\* the keep-alive alarm woke the alarm-based worker
AlarmKeepaliveWoke == ~awake /\ awake' /\ keepaliveAlarm /\ ~keepaliveAlarm'
\* the keep-alive interval fired in the timer-based worker
TimerKeepaliveFired == timerLast' # timerLast /\ timerLast'.op \in {"ping", "tick"}

\* C22: each firing of the keep-alive, in both versions of the worker: with
\* the link Connected a ping is sent and the link state stays as it is;
\* otherwise no ping is sent, the keep-alive is cancelled and reconnect
\* polling is armed (the reconnect alarm exists or its creation is under
\* way; the reconnect timer is set).
C22_KeepAliveFires ==
  [][/\ AlarmKeepaliveFired =>
          IF AlarmConnected
            THEN linkLast'.op = "ping" /\ LinkState' = LinkState
            ELSE /\ linkLast'.op = "keepalive"
                 /\ ~keepaliveAlarm'
                 /\ (reconnectAlarm' \/ pendingGets' # << >>)
     /\ AlarmKeepaliveWoke =>
          /\ linkLast'.op = "wake"
          /\ (reconnectAlarm' \/ pendingGets' # << >>)
     /\ TimerKeepaliveFired =>
          IF TimerConnected
            THEN timerLast'.op = "ping" /\ TimerState' = TimerState
            ELSE /\ timerLast'.op = "tick"
                 /\ ~KeepaliveInterval'
                 /\ reconnectTimer' # NULL]_vars

(* ------------------- claims: envelopes and the table ------------------- *)

\* C23: a submit that is forwarded sends the envelope whose id is the id
\* the relay generated for this call and whose action is the action the
\* caller submitted, whatever keys the params hold.
C23_EnvelopeIdAndAction ==
  [][\A a \in Actions, p \in ParamsSet :
       (Connected /\ sendCommand(a, p))
         => last'.out = [id |-> cid'[last'.caller], action |-> a]]_vars

\* C24: a ping or extension_ready frame resolves no caller, removes no
\* entry and disarms no timer, also when it carries the id of an entry of
\* the table.
C24_ControlFramesLeaveTable ==
  [][(last'.op = "message" /\ last'.frame \in ControlFrames)
       => UNCHANGED <<pendingCommands, timers, result, settles>>]_vars

\* a control frame with the id of a waiting command was handled; the
\* command still waits
C24_Witness ==
  /\ last.op = "message"
  /\ last.frame \in ControlFrames
  /\ last.frame.id \in DOMAIN pendingCommands
  /\ result[pendingCommands[last.frame.id].caller] = Waiting

\* C27: when a connection that is not the current peer link closes, no
\* caller is resolved, the table and its timers stay as they are and the
\* current link stays set; callers are failed with the disconnect error only
\* by the close of the current link.
C27_StaleCloseLeavesTable ==
  [][(last'.op = "close" /\ extensionSocket # NULL /\ last'.sock # extensionSocket)
       => /\ UNCHANGED <<pendingCommands, timers, result, settles>>
          /\ extensionSocket' = extensionSocket]_vars

\* C30: the armed deadline timers are exactly the timers of the entries of
\* the pending table, one per entry: no entry shares a timer with another
\* one or lacks one, and no timer is armed for an id that left the table.
C30_TimersMatchTable ==
  /\ timers = TableTimers(pendingCommands)
  /\ Cardinality(timers) = Cardinality(DOMAIN pendingCommands)

\* one entry went through a reply, a link loss or shutdown while another
\* command had been waiting with it, and its timer is gone with it
C30_Witness ==
  /\ last.op \in {"message", "close", "shutdown"}
  /\ \E c \in Callers : Resolved(c) /\ settles[c] = 1 /\ c \notin timers
  /\ nCallers = MaxCallers

\* C28: a caller is resolved by a reply only if the reply answers the
\* command forwarded for that caller. The extension answers a command with
\* the id it read from the envelope, so the reply to the command that was
\* just forwarded carries that envelope's id: it changes no other caller's
\* result.
C28_OwnReplyOnly ==
  [][(/\ last.op = "submit"
      /\ last.out # NoMsg
      /\ last'.op = "message"
      /\ IsReplyFrame(last'.frame)
      /\ last'.frame.id = last.out.id)
       => \A c \in Callers \ {last.caller} : result'[c] = result[c]]_vars

(* ---------------------- claims: the link handle ------------------------ *)

\* C29: in both versions of the worker, a socket that is connecting or open
\* is the one the handle refers to; the close event of an earlier socket
\* does not take the handle away from a later one.
C29_HandleFollowsSocket ==
  /\ \A s \in ClientSockets : wsState[s] \in {"CONNECTING", "OPEN"} => ws = s
  /\ \A s \in TimerSockets : wsTState[s] \in {"CONNECTING", "OPEN"} => wsT = s

(* ------------------ claims: commands for the page ---------------------- *)

\* what the caller gets from a message that was sent to the tab: a timeout
\* when the reply's id is not the caller's, the error of sendMessage when
\* nobody listens, otherwise what the listener answered
SentOutcome ==
  IF exec.frameId # exec.id THEN Msg(TimeoutMsg, << >>)
  ELSE IF exec.executions = 0 THEN NoReceiverMsg
  ELSE IF exec.response.success THEN NoError
  ELSE msg_error_or(exec.response.error, ContentDefaultMsg)

\* C25: for each of the six DOM actions the injection of the content script
\* is attempted, and whether it succeeds or fails the message is sent to the
\* tab (every listener of the page handles it) and the caller gets the
\* outcome of that message, never an error of the injection.
C25_InstallNeverBlocks ==
  exec.op = "forward" =>
    /\ exec.action \in ContentActions
    /\ exec.install \in {"ok", "failed"}
    /\ exec.executions = listeners
    /\ exec.caller = SentOutcome

\* the injection failed, the listener already in the page executed the
\* command and the caller was resolved
C25_Witness ==
  /\ exec.op = "forward"
  /\ exec.install = "failed"
  /\ exec.executions = 1
  /\ exec.response.lookup = "found"
  /\ exec.caller = NoError

\* the actions whose handler looks params.selector up unconditionally
SelectorActions == {"click", "hover", "get_text", "fill"}

\* C26: a command without a parameter its action requires is answered with
\* an error and changes nothing: navigate without url goes nowhere; click,
\* hover, get_text and fill without selector touch no element; fill without
\* value writes nothing into the element.
C26_MissingParamRejected ==
  /\ (exec.op = "navigate" /\ exec.url = << >>)
       => (exec.caller # NoError /\ exec.target = << >>)
  /\ (exec.op = "forward" /\ exec.action \in SelectorActions /\ exec.selector = << >>)
       => (exec.caller # NoError /\ exec.effect = "none")
  /\ exec.effect # "undefined"

(* --------------------- claims: the two alarms -------------------------- *)

\* the alarm-based worker has no socket that is connecting, open or closing
AlarmDisconnected ==
  /\ ws = NULL
  /\ \A s \in ClientSockets : wsState[s] \notin {"CONNECTING", "OPEN", "CLOSING"}

\* C32: in the running alarm-based worker with no chrome.alarms callback
\* outstanding: while the link is Connected the keep-alive alarm is armed and
\* the reconnect alarm is not; while it is Disconnected the reconnect alarm
\* is armed and the keep-alive alarm is not.
C32_AlarmsFollowLink ==
  (AlarmLoaded /\ awake /\ pendingGets = << >>) =>
    /\ AlarmConnected => (keepaliveAlarm /\ ~reconnectAlarm)
    /\ AlarmDisconnected => (reconnectAlarm /\ ~keepaliveAlarm)

(* --------------------- claims: command replies ------------------------- *)

\* C31: for a command the worker received it sends at most one reply frame,
\* the frame carries the command's id, the handler always gets to the point
\* where it replies, and there the reply is sent if the socket the command
\* arrived on is (still) open; also when both the timeout and the response
\* occur.
C31_OneReplyPerCommand ==
  /\ [](cmd.sent <= 1)
  /\ [](cmd.sent = 1 => cmd.frameId = cmd.id)
  /\ []((cmd.phase = "done" /\ cmd.open) => cmd.sent = 1)
  /\ (cmd.phase = "waiting") ~> (cmd.phase = "done")

==========================================================================
